---- MODULE Spec2Model ----
(***************************************************************************)
(* Project 0 framework (project_0_framework.py): the deduplicating         *)
(* KnowledgeBase and the ProofNode tree with its strength evaluation.      *)
(***************************************************************************)
EXTENDS Integers, Sequences, FiniteSets, TLC

(***************************************************************************)
(* Bounds of the model.                                                    *)
(***************************************************************************)
\* KnowledgeEntry objects a run constructs.
MaxEntries == 3
\* add_entry calls a run makes.
MaxAdds == 3
\* ProofNode objects a run of the raw tree interface constructs.
MaxNodes == 3
\* add_child calls a run of the raw tree interface makes.
MaxCalls == 2
\* ProofNode objects in the tree a well-behaved caller builds.
MaxTreeNodes == 6
\* sys.getrecursionlimit(): CPython's bound on the depth of the call stack
\* (1000 by default), scaled down to the trees the model builds.
RecursionLimit == 12

(***************************************************************************)
(* Inputs.  Strings are sequences of characters, so that the concatenation *)
(* content + source is the concatenation of two sequences.                 *)
(***************************************************************************)
Contents == { <<"a">>, <<"a", "b">> }
Sources == { <<"c">>, <<"b", "c">> }
TagLists == { <<>>, <<"x", "x">>, <<"y", "x">> }
SearchTags == { "x", "y", "z" }
\* proof_type arguments: a label of weight_map, and a label that is not in it.
Labels == { "experiment", "unknownlabel" }
\* proof_type argument of the runs of the raw tree interface, where the
\* shape of the structure is what matters.
RawLabels == { "text" }

None == "None"

\* No KnowledgeEntry constructed yet.
NoEntry == [id |-> 0, content |-> <<>>, source |-> <<>>, tags |-> <<>>, fingerprint |-> 0]

\* No read made yet.
NoRet == [op |-> None, tag |-> None, list |-> <<>>]

VARIABLES
    cur,        \* the KnowledgeEntry the caller constructed last, or NoEntry
    nextId,     \* the next value uuid.uuid4() hands out
    entries,    \* KnowledgeBase.entries: the dict, as <<key, value>> pairs in insertion order
    log,        \* ghost: the arguments of the add_entry calls, in call order
    ret         \* the list the last call returned (with the call that returned it),
                \* NoRet when the last call was not a read

VARIABLES
    proof_type, \* proof_type[n]: ProofNode n's proof_type
    children,   \* children[n]: ProofNode n's children list (node ids)
    calls,      \* ghost: the add_child calls <<parent, child>>, in call order
    out         \* what the last evaluate_strength / to_dict call returned or raised

kbvars == <<cur, nextId, entries, log, ret>>

treevars == <<proof_type, children, calls, out>>

(***************************************************************************)
(* KnowledgeEntry.  id is the uuid, a fresh value per object; timestamp is  *)
(* written once and read by nothing, and is left out.                      *)
(***************************************************************************)
\* str.encode(): the UTF-8 bytes of an ASCII string.
CodePoint(ch) ==
    CASE ch = "a" -> 97
      [] ch = "b" -> 98
      [] ch = "c" -> 99

encode(s) == [i \in 1..Len(s) |-> CodePoint(s[i])]

\* hashlib.sha256(bytes).hexdigest(): a collision-resistant digest, modelled
\* as an injective code of the byte sequence (length first, then the bytes).
RECURSIVE DigestOf(_)
DigestOf(bytes) ==
    IF bytes = <<>> THEN 1
    ELSE DigestOf(SubSeq(bytes, 1, Len(bytes) - 1)) * 4 + (bytes[Len(bytes)] - 96)

sha256_hexdigest(bytes) == DigestOf(bytes)

\* A constructor that fingerprints the content alone.
KnowledgeEntry_content_only(id, content, source, tags) ==
    [ id |-> id,
      content |-> content,
      source |-> source,
      tags |-> tags,
      fingerprint |-> sha256_hexdigest(encode(content)) ]

\* An alternative fingerprint that puts a separator between content and source.
compute_fingerprint_separated(content, source) ==
    sha256_hexdigest(encode(content) \o <<96>> \o encode(source))

compute_fingerprint(content, source) ==
    sha256_hexdigest(encode(content \o source))

KnowledgeEntry(id, content, source, tags) ==
    [ id |-> id,
      content |-> content,
      source |-> source,
      tags |-> tags,
      fingerprint |-> compute_fingerprint(content, source) ]

(***************************************************************************)
(* KnowledgeBase                                                           *)
(***************************************************************************)
Keys(d) == { d[i].key : i \in 1..Len(d) }

Lookup(d, k) == d[CHOOSE i \in 1..Len(d) : d[i].key = k].val

Values(d) == [i \in 1..Len(d) |-> d[i].val]

\* A dict assignment d[k] = v: replaces the value in place, or appends the key.
DictSet(d, k, v) ==
    IF k \in Keys(d)
    THEN [i \in 1..Len(d) |-> IF d[i].key = k THEN [key |-> k, val |-> v] ELSE d[i]]
    ELSE Append(d, [key |-> k, val |-> v])

\* add_entry without the membership test: the last write wins.
add_entry_overwrite(d, entry) == DictSet(d, entry.fingerprint, entry)

add_entry(d, entry) ==
    IF entry.fingerprint \notin Keys(d)
    THEN DictSet(d, entry.fingerprint, entry)
    ELSE d

\* tag in e.tags: list membership by equality.
TagIn(tag, tags) == \E i \in 1..Len(tags) : tags[i] = tag

\* A search that looks at an entry's first tag only.
search_by_tag_first(d, tag) ==
    SelectSeq(Values(d), LAMBDA e : Len(e.tags) > 0 /\ e.tags[1] = tag)

search_by_tag(d, tag) ==
    SelectSeq(Values(d), LAMBDA e : TagIn(tag, e.tags))

all_entries(d) == Values(d)

(***************************************************************************)
(* The operations of the knowledge store.                                  *)
(***************************************************************************)
NewEntry(content, source, tags) ==
    /\ nextId <= MaxEntries
    /\ cur' = KnowledgeEntry(nextId, content, source, tags)
    /\ nextId' = nextId + 1
    /\ ret' = NoRet
    /\ UNCHANGED <<entries, log>>
    /\ UNCHANGED treevars

AddEntry ==
    /\ cur # NoEntry
    /\ Len(log) < MaxAdds
    /\ entries' = add_entry(entries, cur)
    /\ log' = Append(log, cur)
    /\ ret' = NoRet
    /\ UNCHANGED <<cur, nextId>>
    /\ UNCHANGED treevars

SearchByTag(tag) ==
    /\ ret' = [op |-> "search_by_tag", tag |-> tag, list |-> search_by_tag(entries, tag)]
    /\ UNCHANGED <<cur, nextId, entries, log>>
    /\ UNCHANGED treevars

AllEntries ==
    /\ ret' = [op |-> "all_entries", tag |-> None, list |-> all_entries(entries)]
    /\ UNCHANGED <<cur, nextId, entries, log>>
    /\ UNCHANGED treevars

\* The caller empties the list a read handed out.
CallerClearsList ==
    /\ ret # NoRet
    /\ ret.list # <<>>
    /\ ret.op \in {"search_by_tag", "all_entries"}
    /\ ret' = [ret EXCEPT !.list = <<>>, !.op = "cleared"]
    /\ UNCHANGED <<cur, nextId, entries, log>>
    /\ UNCHANGED treevars

InitKB ==
    /\ cur = NoEntry
    /\ nextId = 1
    /\ entries = <<>>
    /\ log = <<>>
    /\ ret = NoRet

NextKB ==
    \/ \E c \in Contents, s \in Sources, t \in TagLists : NewEntry(c, s, t)
    \/ AddEntry
    \/ \E tag \in SearchTags : SearchByTag(tag)
    \/ AllEntries
    \/ CallerClearsList

(***************************************************************************)
(* Python floats.  A float x >= 0 is the natural number x * 2^60 written   *)
(* in four limbs of 20 bits, least significant first; every double between *)
(* 2^-7 and 16 is such a number with at most 53 significant bits.          *)
(***************************************************************************)
LimbBase == 2^20

\* The number of bits of a natural number.
RECURSIVE Bits(_)
Bits(n) == IF n = 0 THEN 0 ELSE 1 + Bits(n \div 2)

BitLen(a) ==
    IF a[4] > 0 THEN 60 + Bits(a[4])
    ELSE IF a[3] > 0 THEN 40 + Bits(a[3])
    ELSE IF a[2] > 0 THEN 20 + Bits(a[2])
    ELSE Bits(a[1])

\* Carries propagated upwards; the top limb takes what is left.
Carry(a) ==
    LET t2 == a[2] + a[1] \div LimbBase
        t3 == a[3] + t2 \div LimbBase
    IN  <<a[1] % LimbBase, t2 % LimbBase, t3 % LimbBase, a[4] + t3 \div LimbBase>>

\* IEEE 754 round-to-nearest, ties-to-even, to the 53 bits of a double;
\* sticky says that the exact value lies above a.
RoundToDouble(a, sticky) ==
    LET len == BitLen(a)
    IN  IF len <= 53 THEN a
        ELSE LET p == 2^(len - 53)
                 low == a[1] % p
                 half == p \div 2
                 odd == (a[1] \div p) % 2 = 1
                 up == low > half \/ (low = half /\ (sticky \/ odd))
             IN  Carry(<<a[1] - low + (IF up THEN p ELSE 0), a[2], a[3], a[4]>>)

\* int 0, and 0.0.
FloatZero == <<0, 0, 0, 0>>

\* x + y on floats; sum() adds its items to 0 with it, from left to right.
float_add(x, y) ==
    RoundToDouble(Carry(<<x[1] + y[1], x[2] + y[2], x[3] + y[3], x[4] + y[4]>>), FALSE)

\* x * 0.5 on floats: exact.
float_half(x) ==
    LET h == LimbBase \div 2
    IN  << x[1] \div 2 + (x[2] % 2) * h,
           x[2] \div 2 + (x[3] % 2) * h,
           x[3] \div 2 + (x[4] % 2) * h,
           x[4] \div 2 >>

\* The double nearest to k / 1000: a float literal with at most three
\* decimals, and the float round(x, 3) returns.
float_of_decimal(k) ==
    LET t3 == (k % 1000) * LimbBase
        t2 == (t3 % 1000) * LimbBase
        t1 == (t2 % 1000) * LimbBase
    IN  RoundToDouble(<<t1 \div 1000, t2 \div 1000, t3 \div 1000, k \div 1000>>,
                      t1 % 1000 > 0)

\* round(x, 3), as the number of thousandths k of the result (the float
\* returned is float_of_decimal(k)): the exact value of the double x rounded
\* to the nearest multiple of 0.001, to the even one on a tie.
round3(x) ==
    LET m == Carry(<<x[1] * 1000, x[2] * 1000, x[3] * 1000, x[4] * 1000>>)
        h == LimbBase \div 2
        above == m[3] > h \/ (m[3] = h /\ (m[2] > 0 \/ m[1] > 0))
        tie == m[3] = h /\ m[2] = 0 /\ m[1] = 0
    IN  m[4] + (IF above \/ (tie /\ m[4] % 2 = 1) THEN 1 ELSE 0)

(***************************************************************************)
(* ProofNode.  A node is its index in proof_type and children (its id);    *)
(* claim, source and created are written once, copied into the view by     *)
(* to_dict and read by nothing else, and are left out.                     *)
(***************************************************************************)
\* weight_map.get(proof_type, 0.1), in thousandths.
weight_map(label) ==
    CASE label = "experiment" -> 1000
      [] label = "observation" -> 800
      [] label = "text" -> 600
      [] label = "tradition" -> 400
      [] label = "opinion" -> 200
      [] OTHER -> 100

\* What a call returns: a value, or the RecursionError it raised.
RecursionError == [err |-> TRUE, strength |-> 0, view |-> <<>>]

Returned(k, v) == [err |-> FALSE, strength |-> k, view |-> v]

\* add_child that also appends the child to itself.
add_child_twice(ch, p, c) == [ch EXCEPT ![p] = Append(Append(@, c), c)]

add_child(ch, p, c) == [ch EXCEPT ![p] = Append(@, c)]

\* evaluate_strength() of node n with depth Python frames already on the
\* call stack: one frame for the method and one for the generator expression
\* that sum() drives; a call past the recursion limit raises RecursionError,
\* which nothing catches.
RECURSIVE evaluate_strength(_, _, _, _)
RECURSIVE SumStrengths(_, _, _, _, _)
SumStrengths(pt, ch, cs, acc, depth) ==
    IF cs = <<>> THEN [err |-> FALSE, sum |-> acc]
    ELSE LET r == evaluate_strength(pt, ch, Head(cs), depth)
         IN  IF r.err THEN [err |-> TRUE, sum |-> acc]
             ELSE SumStrengths(pt, ch, Tail(cs),
                               float_add(acc, float_of_decimal(r.strength)), depth)

evaluate_strength(pt, ch, n, depth) ==
    IF depth + 2 > RecursionLimit THEN RecursionError
    ELSE LET base == float_of_decimal(weight_map(pt[n]))
             s == SumStrengths(pt, ch, ch[n], FloatZero, depth + 2)
         IN  IF s.err THEN RecursionError
             ELSE Returned(round3(float_add(base, float_half(s.sum))), <<>>)

\* to_dict() of node n: "strength" is evaluated first, then the list
\* comprehension (a frame of its own) calls to_dict() on each child.
RECURSIVE to_dict(_, _, _, _)
RECURSIVE ChildViews(_, _, _, _, _)
ChildViews(pt, ch, cs, acc, depth) ==
    IF cs = <<>> THEN Returned(0, acc)
    ELSE LET r == to_dict(pt, ch, Head(cs), depth)
         IN  IF r.err THEN RecursionError
             ELSE ChildViews(pt, ch, Tail(cs), Append(acc, r.view), depth)

to_dict(pt, ch, n, depth) ==
    IF depth + 1 > RecursionLimit THEN RecursionError
    ELSE LET s == evaluate_strength(pt, ch, n, depth + 1)
         IN  IF s.err \/ depth + 2 > RecursionLimit THEN RecursionError
             ELSE LET cv == ChildViews(pt, ch, ch[n], <<>>, depth + 2)
                  IN  IF cv.err THEN RecursionError
                      ELSE Returned(s.strength,
                                    [ id |-> n,
                                      proof_type |-> pt[n],
                                      strength |-> s.strength,
                                      children |-> cv.view ])

(***************************************************************************)
(* The operations of the proof tree.  Calls come from module level, where  *)
(* one frame is on the call stack.                                         *)
(***************************************************************************)
CallerDepth == 1

Nodes == 1..Len(proof_type)

NoOut == [op |-> None, node |-> 0, err |-> FALSE, strength |-> 0, view |-> <<>>]

Outcome(op, n, r) ==
    [op |-> op, node |-> n, err |-> r.err, strength |-> r.strength, view |-> r.view]

\* ProofNode(claim, source, proof_type)
NewNode(label) ==
    /\ Len(proof_type) < MaxNodes
    /\ proof_type' = Append(proof_type, label)
    /\ children' = Append(children, <<>>)
    /\ out' = NoOut
    /\ UNCHANGED calls
    /\ UNCHANGED kbvars

\* p.add_child(c), for any two nodes
AddChild(p, c) ==
    /\ Len(calls) < MaxCalls
    /\ children' = add_child(children, p, c)
    /\ calls' = Append(calls, <<p, c>>)
    /\ out' = NoOut
    /\ UNCHANGED proof_type
    /\ UNCHANGED kbvars

\* n.evaluate_strength()
Evaluate(n) ==
    /\ out' = Outcome("evaluate_strength", n,
                      evaluate_strength(proof_type, children, n, CallerDepth))
    /\ UNCHANGED <<proof_type, children, calls>>
    /\ UNCHANGED kbvars

\* n.to_dict()
ToDict(n) ==
    /\ out' = Outcome("to_dict", n, to_dict(proof_type, children, n, CallerDepth))
    /\ UNCHANGED <<proof_type, children, calls>>
    /\ UNCHANGED kbvars

\* root = ProofNode(..., label)
NewRoot(label) ==
    /\ proof_type = <<>>
    /\ proof_type' = <<label>>
    /\ children' = << <<>> >>
    /\ out' = NoOut
    /\ UNCHANGED calls
    /\ UNCHANGED kbvars

\* c = ProofNode(..., label); p.add_child(c)
AddNewChild(p, label) ==
    /\ Len(proof_type) < MaxTreeNodes
    /\ proof_type' = Append(proof_type, label)
    /\ children' = add_child(Append(children, <<>>), p, Len(proof_type) + 1)
    /\ calls' = Append(calls, <<p, Len(proof_type) + 1>>)
    /\ out' = NoOut
    /\ UNCHANGED kbvars

InitTree ==
    /\ proof_type = <<>>
    /\ children = <<>>
    /\ calls = <<>>
    /\ out = NoOut

NextTree ==
    \/ \E label \in RawLabels : NewNode(label)
    \/ \E p, c \in Nodes : AddChild(p, c)
    \/ \E n \in Nodes : Evaluate(n)

Root == 1

NextScore ==
    \/ \E label \in Labels : NewRoot(label)
    \/ \E p \in Nodes, label \in Labels : AddNewChild(p, label)
    \/ Nodes # {} /\ Evaluate(Root)
    \/ Nodes # {} /\ ToDict(Root)

vars == <<cur, nextId, entries, log, ret, proof_type, children, calls, out>>

Init == InitKB /\ InitTree

SpecKB == Init /\ [][NextKB]_vars

\* The raw tree interface: any add_child call.
SpecTree == Init /\ [][NextTree]_vars

\* A well-behaved caller: one tree, grown by attaching new nodes.
SpecScore == Init /\ [][NextScore]_vars

(***************************************************************************)
(* Properties of the knowledge store.                                      *)
(***************************************************************************)
Stored(e) == \E i \in 1..Len(entries) : entries[i].val = e

\* Hash(content ++ source), written out.
Hash(e) == sha256_hexdigest(encode(e.content \o e.source))

\* The first add_entry call whose argument has fingerprint fp.
FirstWith(fp) == CHOOSE i \in 1..Len(log) :
    /\ log[i].fingerprint = fp
    /\ \A h \in 1..(i - 1) : log[h].fingerprint # fp

\* Two add_entry calls i < j with the same (content, source) and different ids.
SamePair(i, j) ==
    /\ i < j
    /\ log[i].content = log[j].content
    /\ log[i].source = log[j].source
    /\ log[i].id # log[j].id

C2_KeyIsFingerprint ==
    /\ \A i \in 1..Len(entries) :
        /\ entries[i].val.fingerprint = entries[i].key
        /\ entries[i].key = Hash(entries[i].val)
    /\ \A i, j \in 1..Len(entries) :
        (/\ entries[i].val.content = entries[j].val.content
         /\ entries[i].val.source = entries[j].val.source) => i = j

\* C2 witness: two entries are stored, and a third insertion was refused.
C2_Witness ==
    /\ Len(entries) = 2
    /\ Len(log) = 3

\* The stored entries that carry tag t, by position in the dict.
Carriers(t) ==
    {i \in 1..Len(entries) : \E k \in 1..Len(entries[i].val.tags) : entries[i].val.tags[k] = t}

\* r lists the entries at the positions P of list all, each once, in the order of all.
ListsInOrder(r, all, P) ==
    /\ Len(r) = Cardinality(P)
    /\ \E f \in [1..Len(r) -> P] :
        /\ \A a, b \in 1..Len(r) : a < b => f[a] < f[b]
        /\ \A a \in 1..Len(r) : r[a] = all[f[a]]

\* C3: search_by_tag(t) returns exactly the stored entries that carry t, each
\* once, in the order all_entries() lists them, and the empty list when no
\* stored entry carries t.
C3_TagSearch ==
    ret.op = "search_by_tag" =>
        /\ ListsInOrder(ret.list, all_entries(entries), Carriers(ret.tag))
        /\ (Carriers(ret.tag) = {} => ret.list = <<>>)

\* C3 witness: a search returned two of three stored entries, one of which
\* carries the tag twice.
C3_Witness ==
    /\ ret.op = "search_by_tag"
    /\ Len(entries) = 3
    /\ Len(ret.list) = 2
    /\ \E a \in 1..2 : ret.list[a].tags = <<"x", "x">>

\* C5: inserted entries whose concatenations content ++ source are equal have
\* equal fingerprints, also when their (content, source) pairs differ, and of
\* two such entries the one inserted later is not stored.
C5_ConcatenationDecides ==
    \A i, j \in 1..Len(log) :
        (log[i].content \o log[i].source = log[j].content \o log[j].source) =>
            /\ log[i].fingerprint = log[j].fingerprint
            /\ (i < j /\ log[i] # log[j] => ~Stored(log[j]))

\* C5 witness: ("ab", "c") and ("a", "bc") were inserted in some order, and
\* the first of the two is stored.
C5_Witness ==
    \E i, j \in 1..Len(log) :
        /\ i < j
        /\ log[i].content # log[j].content
        /\ log[i].content \o log[i].source = log[j].content \o log[j].source
        /\ Stored(log[i])

\* C6: the store starts empty; no step removes a key or changes the entry
\* under a key; a step adds at most one key; and the reads, and the caller
\* changing a returned list, leave entries unchanged.
C6_GrowsOnly ==
    /\ entries = <<>>
    /\ [][ /\ Keys(entries) \subseteq Keys(entries')
           /\ \A k \in Keys(entries) : Lookup(entries', k) = Lookup(entries, k)
           /\ Cardinality(Keys(entries')) <= Cardinality(Keys(entries)) + 1
           /\ (ret' # NoRet => entries' = entries)
           /\ (log' = log => entries' = entries) ]_vars

\* C6 witness: the caller emptied the list all_entries returned, the store
\* still holds two entries, and an add_entry call was a no-op.
C6_Witness ==
    /\ ret.op = "cleared"
    /\ Len(entries) = 2
    /\ Len(log) = 3

(***************************************************************************)
(* Properties of the proof tree.                                           *)
(***************************************************************************)
\* The places <<p, i>> where node c stands in a children list.
PlacesOf(ch, c) ==
    {pi \in UNION {{<<p, i>> : i \in 1..Len(ch[p])} : p \in 1..Len(ch)} :
        ch[pi[1]][pi[2]] = c}

\* The children of the nodes S.
ChildSet(ch, S) == UNION {{ch[p][i] : i \in 1..Len(ch[p])} : p \in S}

\* The nodes reachable from the nodes S through at most k children links.
RECURSIVE Within(_, _, _)
Within(ch, S, k) == IF k = 0 THEN S ELSE Within(ch, S \cup ChildSet(ch, S), k - 1)

\* The nodes reachable from n through one or more children links.
Descendants(ch, n) == Within(ch, ChildSet(ch, {n}), Len(ch))

\* A strict forest: no node stands twice in one children list or in the
\* lists of two parents, and no node is reachable from itself.
StrictForest(ch) ==
    /\ \A c \in 1..Len(ch) : Cardinality(PlacesOf(ch, c)) <= 1
    /\ \A n \in 1..Len(ch) : n \notin Descendants(ch, n)

\* C9 as stated: in every reachable state the ProofNode structure is a strict
\* tree (acyclic, no node shared between parents or repeated under one).
C9_AlwaysStrictTree == StrictForest(children)

\* p.add_child(c) as the caller is meant to use it: c is another node, has no
\* parent yet and is not an ancestor of p.
Permitted(ch, p, c) ==
    /\ c # p
    /\ PlacesOf(ch, c) = {}
    /\ p \notin Descendants(ch, c)

\* C9 amended: add_child checks nothing, so a strict tree is kept only by the
\* caller: from a strict forest, constructing a node, or a call
\* p.add_child(c) where c is not p, has no parent yet and is not an ancestor
\* of p, leads to a strict forest again.
C9_PermittedCallsKeepTree ==
    [][ \A p, c \in Nodes :
          ( /\ calls' = Append(calls, <<p, c>>)
            /\ children' = add_child(children, p, c)
            /\ Permitted(children, p, c)
            /\ StrictForest(children) )
          => StrictForest(children') ]_vars

\* C9 witness: two permitted add_child calls built a tree three levels deep.
C9_Witness ==
    /\ Len(calls) = 2
    /\ StrictForest(children)
    /\ \E n \in Nodes : \E m \in ChildSet(children, {n}) : ChildSet(children, {m}) # {}
    /\ out.op = "evaluate_strength"
    /\ ~out.err

\* The strength of node n, in thousandths, called from module level.
Strength(n) == evaluate_strength(proof_type, children, n, CallerDepth).strength

RECURSIVE SumOfStrengths(_)
SumOfStrengths(cs) ==
    IF cs = <<>> THEN 0 ELSE Strength(Head(cs)) + SumOfStrengths(Tail(cs))

\* weight(n.proof_type) + 0.5 * (the sum of the children's strengths), exactly,
\* in units of 0.0005.
ExactHalfThousandths(n) == 2 * weight_map(proof_type[n]) + SumOfStrengths(children[n])

\* Rounding h units of 0.0005 to thousandths; the rules differ on a tie only.
Round3By(rule, h) ==
    IF h % 2 = 0 THEN h \div 2
    ELSE CASE rule = "half-even" -> IF (h \div 2) % 2 = 0 THEN h \div 2 ELSE h \div 2 + 1
           [] rule = "half-up" -> h \div 2 + 1
           [] rule = "half-down" -> h \div 2

\* C4 as stated: the strength of every node is round3 of its weight plus half
\* the sum of its children's (already rounded) strengths, round3 being a
\* rounding to three decimals (whichever way it settles a tie).
C4_StrengthIsRound3 ==
    (out.op = "evaluate_strength" /\ ~out.err) =>
        \E rule \in {"half-even", "half-up", "half-down"} :
            \A n \in {out.node} \cup Descendants(children, out.node) :
                Strength(n) = Round3By(rule, ExactHalfThousandths(n))

\* What evaluate_strength does guarantee: a strength is a multiple of 0.001
\* nearest to the exact value, one of the two neighbours on a tie.
StrengthIsNearest ==
    (out.op = "evaluate_strength" /\ ~out.err) =>
        \A n \in {out.node} \cup Descendants(children, out.node) :
            LET d == 2 * Strength(n) - ExactHalfThousandths(n)
            IN  d \in {-1, 0, 1}

\* The children that the add_child calls on node n passed, in call order.
RECURSIVE CallsOn(_, _)
CallsOn(cl, n) ==
    IF cl = <<>> THEN <<>>
    ELSE IF Head(cl)[1] = n THEN <<Head(cl)[2]>> \o CallsOn(Tail(cl), n)
    ELSE CallsOn(Tail(cl), n)

RECURSIVE ViewMatches(_, _)
ViewMatches(v, n) ==
    /\ v.id = n
    /\ v.proof_type = proof_type[n]
    /\ v.strength = Strength(n)
    /\ Len(v.children) = Len(CallsOn(calls, n))
    /\ \A i \in 1..Len(v.children) : ViewMatches(v.children[i], CallsOn(calls, n)[i])

\* C7 as stated: to_dict() on a node of a tree built by add_child calls
\* returns a mapping: its children are the views of the nodes the add_child
\* calls on that node passed, in call order, recursively, and its strength at
\* every level is that node's evaluate_strength().
C7_ViewComplete ==
    out.op = "to_dict" => (~out.err /\ ViewMatches(out.view, out.node))

\* What to_dict does guarantee: the view is complete whenever one is returned.
ViewCompleteWhenReturned ==
    (out.op = "to_dict" /\ ~out.err) => ViewMatches(out.view, out.node)

\* C8 as stated: evaluate_strength() and to_dict() on the root of a finite
\* acyclic tree return a value and raise no error, whatever the depth.
C8_AlwaysReturns ==
    (out.op \in {"evaluate_strength", "to_dict"} /\ StrictForest(children)) => ~out.err

\* The orders in which the children cs can stand.
Orders(cs) ==
    {q \in [1..Len(cs) -> {cs[i] : i \in 1..Len(cs)}] :
        \A i, j \in 1..Len(cs) : i # j => q[i] # q[j]}

\* C10 as stated: the strength of a node does not depend on the order in
\* which its child subtrees were attached.
C10_OrderIndependent ==
    (out.op = "evaluate_strength" /\ ~out.err) =>
        \A q \in Orders(children[out.node]) :
            evaluate_strength(proof_type, [children EXCEPT ![out.node] = q],
                              out.node, CallerDepth).strength = out.strength

====
